---- MODULE Spec2Model ----
(***************************************************************************)
(* A model of code/chap04.ipynb (Think Bayes, chapter 4): the Euro problem *)
(* solved on a grid of hypotheses 0..100 (classes Euro and Euro2 over the  *)
(* thinkbayes2 Suite) and in closed form (class Beta).                     *)
(*                                                                         *)
(* Numbers.  Python floats are modelled by exact rationals.                *)
(*  - A likelihood is n / Percent^e, kept as the record [n, e].            *)
(*  - A suite is [vals, w, t, e]: vals is the domain in insertion order    *)
(*    and the mass of x is w[x] / (t * Percent^e).  Normalize leaves the   *)
(*    unique form with e = 0, gcd(w) = 1 and t = the sum of w, so two      *)
(*    normalized suites hold the same masses iff the records are equal.    *)
(*  - A Beta parameter is a rational [n, d] in lowest terms, d > 0.        *)
(***************************************************************************)
EXTENDS Integers, Sequences, FiniteSets, TLC

VARIABLES pc, kind, policy, suite, dataset, err, suite2, batch, err2, sret,
          bpc, alpha, beta, a0, b0, history, bret

vars == <<pc, kind, policy, suite, dataset, err, suite2, batch, err2, sret,
          bpc, alpha, beta, a0, b0, history, bret>>

suiteVars == <<pc, kind, policy, suite, dataset, err, suite2, batch, err2, sret>>

betaVars == <<bpc, alpha, beta, a0, b0, history, bret>>

(***************************************************************************)
(* Bounds of the model and constants of the program.                       *)
(***************************************************************************)
\* observations fed to one suite by the per-toss loop
MaxObs == 2

\* Update calls made on one Beta object
MaxBetaUpdates == 2

\* x/100 in Euro.Likelihood, hypo/100.0 in Euro2.Likelihood
Percent == 100

\* range(0, 101): the grid of hypotheses
GridSize == 101

\* range(0, 51): the rising side of the triangle prior
TriangleSplit == 51

\* steps=101: the default of Beta.MakePmf and Beta.MakeCdf
DefaultSteps == 101

(***************************************************************************)
(* Arithmetic helpers.                                                     *)
(***************************************************************************)
Abs(n) == IF n < 0 THEN -n ELSE n

RECURSIVE Gcd(_, _)
Gcd(a, b) == IF b = 0 THEN Abs(a) ELSE Gcd(b, a % Abs(b))

RECURSIVE Pow(_, _)
Pow(b, k) == IF k = 0 THEN 1 ELSE b * Pow(b, k - 1)

\* Python's range(lo, hi) as a sequence
Range(lo, hi) == [i \in 1 .. (hi - lo) |-> lo + i - 1]

\* the sum of w over vals[lo..hi], by halving
RECURSIVE SumOver(_, _, _, _)
SumOver(w, vals, lo, hi) ==
    IF lo > hi THEN 0
    ELSE IF lo = hi THEN w[vals[lo]]
    ELSE LET mid == (lo + hi) \div 2
         IN  SumOver(w, vals, lo, mid) + SumOver(w, vals, mid + 1, hi)

\* the greatest common divisor of w over vals[lo..hi], by halving
RECURSIVE GcdOver(_, _, _, _)
GcdOver(w, vals, lo, hi) ==
    IF lo > hi THEN 0
    ELSE IF lo = hi THEN Abs(w[vals[lo]])
    ELSE LET mid == (lo + hi) \div 2
             l == GcdOver(w, vals, lo, mid)
             r == GcdOver(w, vals, mid + 1, hi)
         IN  Gcd(l, r)

\* s = t * Percent^e, computed without forming t * Percent^e
RECURSIVE EqScaled(_, _, _)
EqScaled(s, t, e) ==
    IF e = 0 THEN s = t
    ELSE s % Percent = 0 /\ EqScaled(s \div Percent, t, e - 1)

(***************************************************************************)
(* Euro.Likelihood and Euro2.Likelihood.                                   *)
(***************************************************************************)
Data == {"H", "T", "X"}

\* slip: the two branches exchanged
LikelihoodSwapped(data, hypo) ==
    LET x == hypo
    IN  IF data = "H" THEN [n |-> Percent - x, e |-> 1]
        ELSE [n |-> x, e |-> 1]

\* slip: only 'T' counts as a tail, any other datum is ignored
LikelihoodStrictTail(data, hypo) ==
    LET x == hypo
    IN  IF data = "H" THEN [n |-> x, e |-> 1]
        ELSE IF data = "T" THEN [n |-> Percent - x, e |-> 1]
        ELSE [n |-> Percent, e |-> 1]

\* x/100 for 'H', 1 - x/100 = (100 - x)/100 otherwise
Likelihood(data, hypo) ==
    LET x == hypo
    IN  IF data = "H" THEN [n |-> x, e |-> 1]
        ELSE [n |-> Percent - x, e |-> 1]

\* slip: tails raised to the number of heads
Likelihood2HeadsTwice(data, hypo) ==
    LET heads == data[1]
        tails == data[2]
    IN  [n |-> Pow(hypo, heads) * Pow(Percent - hypo, heads), e |-> heads + heads]

\* x = hypo/100; x**heads * (1-x)**tails
\*   = hypo^heads * (100 - hypo)^tails / 100^(heads + tails)
Likelihood2(data, hypo) ==
    LET heads == data[1]
        tails == data[2]
    IN  [n |-> Pow(hypo, heads) * Pow(Percent - hypo, tails), e |-> heads + tails]

(***************************************************************************)
(* The suite: construction, Normalize, Update, MAP.                        *)
(***************************************************************************)
\* Euro(label=label): a suite with no hypotheses, ready for suite[x] = ...
EmptySuite == [vals |-> << >>, w |-> << >>, t |-> 1, e |-> 0]

\* suite[x] = m
SetItem(s, x, m) ==
    [s EXCEPT !.vals = IF x \in DOMAIN s.w THEN s.vals ELSE Append(s.vals, x),
              !.w = [y \in (DOMAIN s.w) \cup {x} |-> IF y = x THEN m ELSE s.w[y]]]

\* the sum of the masses times the common denominator
Total(s) == SumOver(s.w, s.vals, 1, Len(s.vals))

\* Normalize: every mass divided by the total (which is not zero)
Normalize(s) ==
    LET tot == Total(s)
        g == GcdOver(s.w, s.vals, 1, Len(s.vals))
        sgn == IF tot < 0 THEN -1 ELSE 1
    IN  [vals |-> s.vals,
         w |-> [x \in DOMAIN s.w |-> (sgn * s.w[x]) \div g],
         t |-> (sgn * tot) \div g,
         e |-> 0]

\* the loop of Update: every mass multiplied by its likelihood like[x]
Mult(s, like) ==
    [s EXCEPT !.w = [x \in DOMAIN s.w |-> s.w[x] * like[x].n],
              !.e = s.e + (IF Len(s.vals) = 0 THEN 0 ELSE like[s.vals[1]].e)]

\* Suite(values): weight 1 per value, then Normalize
MakeUniform(values) ==
    Normalize([vals |-> values, w |-> [x \in {values[i] : i \in DOMAIN values} |-> 1],
               t |-> 1, e |-> 0])

\* Suite over values with explicit weights, then Normalize
MakeWeighted(values, weights) ==
    Normalize([vals |-> values,
               w |-> [x \in {values[i] : i \in DOMAIN values} |-> weights[x]],
               t |-> 1, e |-> 0])

\* the value of maximum mass among vals[lo..hi], the earliest among equals
RECURSIVE ArgMax(_, _, _)
ArgMax(s, lo, hi) ==
    IF lo = hi THEN s.vals[lo]
    ELSE LET mid == (lo + hi) \div 2
             l == ArgMax(s, lo, mid)
             r == ArgMax(s, mid + 1, hi)
         IN  IF s.w[r] > s.w[l] THEN r ELSE l

\* MAP(): the value of maximum mass, the first in domain order among equals
MAP(s) == ArgMax(s, 1, Len(s.vals))

(***************************************************************************)
(* The priors of the notebook.                                             *)
(***************************************************************************)
\* slip: the falling side not reflected
TriangleWeightRising(x) == x

\* suite[x] = x for x in range(0, 51), suite[x] = 100-x for x in range(51, 101)
TriangleWeight(x) == IF x < TriangleSplit THEN x ELSE 100 - x

\* slip: the last hypothesis left out (range(51, 100))
TriangleFilledShort(s) == Len(s.vals) = GridSize - 1

\* both loops of TrianglePrior have run
TriangleFilled(s) == Len(s.vals) = GridSize

\* slip: suite.Normalize() left out
TriangleFinishNoNormalize(s) == s

\* suite.Normalize(); return suite
TriangleFinish(s) == Normalize(s)

\* Euro(range(0, 101))
UniformPrior == MakeUniform(Range(0, GridSize))

\* explicit weights: 1 on the support, 0 elsewhere
Supports == {{0}, {GridSize - 1}, {0, GridSize - 1}, {0, 50}, {50, GridSize - 1}}

WeightedPrior(support) ==
    MakeWeighted(Range(0, GridSize), [x \in 0 .. (GridSize - 1) |-> IF x \in support THEN 1 ELSE 0])

NoRet == [op |-> "none", val |-> 0]

(***************************************************************************)
(* The Beta distribution.                                                  *)
(***************************************************************************)
Rat(n, d) ==
    LET g == Gcd(n, d)
        sgn == IF d < 0 THEN -1 ELSE 1
    IN  [n |-> (sgn * n) \div g, d |-> (sgn * d) \div g]

RInt(k) == [n |-> k, d |-> 1]

RAdd(p, q) == Rat(p.n * q.d + q.n * p.d, p.d * q.d)

RSub(p, q) == Rat(p.n * q.d - q.n * p.d, p.d * q.d)

RMul(p, q) == Rat(p.n * q.n, p.d * q.d)

\* q is not zero
RDiv(p, q) == Rat(p.n * q.d, p.d * q.n)

RLess(p, q) == p.n * q.d < q.n * p.d

RLeq(p, q) == p.n * q.d <= q.n * p.d

RZero(p) == p.n = 0

\* the result of a query: a value, a grid, or the exception it raised
NoResult ==
    [op |-> "none", exc |-> "none", val |-> RInt(0), steps |-> 0,
     branch |-> "none", xs |-> << >>]

Returned(op, v) == [NoResult EXCEPT !.op = op, !.val = v]

Raised(op, exc) == [NoResult EXCEPT !.op = op, !.exc = exc]

\* constructor arguments and observation pairs tried
ShapeArgs == {RInt(1), RInt(2), Rat(1, 2), RInt(0)}

Pairs == {<<140, 110>>, <<1, 0>>, <<0, 1>>, <<1, 1>>, <<-1, 0>>}

StepsTried == {2, 3, 11, DefaultSteps}

\* slip: heads and tails exchanged
BetaUpdateSwapped(al, be, data) ==
    LET heads == data[1]
        tails == data[2]
    IN  <<RAdd(al, RInt(tails)), RAdd(be, RInt(heads))>>

\* Beta.Update: self.alpha += heads; self.beta += tails
BetaUpdate(al, be, data) ==
    LET heads == data[1]
        tails == data[2]
    IN  <<RAdd(al, RInt(heads)), RAdd(be, RInt(tails))>>

\* Beta.Mean: self.alpha / (self.alpha + self.beta)
BetaMean(al, be) ==
    LET den == RAdd(al, be)
    IN  IF RZero(den) THEN Raised("Mean", "ZeroDivisionError")
        ELSE Returned("Mean", RDiv(al, den))

\* Beta.MAP: a = alpha - 1; b = beta - 1; a / (a + b)
BetaMAP(al, be) ==
    LET a == RSub(al, RInt(1))
        b == RSub(be, RInt(1))
    IN  IF RZero(RAdd(a, b)) THEN Raised("MAP", "ZeroDivisionError")
        ELSE Returned("MAP", RDiv(a, RAdd(a, b)))

\* xs = [i / (steps - 1) for i in range(steps)], steps > 1
Grid(steps) == [i \in 1 .. steps |-> Rat(i - 1, steps - 1)]

\* Beta.MakeCdf: the grid xs, with ps = betainc(alpha, beta, xs)
MakeCdf(al, be, steps) == [xs |-> Grid(steps), ps |-> "betainc"]

\* Beta.MakePmf: differences of the CDF when a parameter is below 1,
\* else EvalPdf on the grid
MakePmf(al, be, steps) ==
    IF RLess(al, RInt(1)) \/ RLess(be, RInt(1))
    THEN LET cdf == MakeCdf(al, be, DefaultSteps)
         IN  [NoResult EXCEPT !.op = "MakePmf", !.steps = steps,
                              !.branch = "cdf", !.xs = cdf.xs]
    ELSE [NoResult EXCEPT !.op = "MakePmf", !.steps = steps,
                          !.branch = "pdf", !.xs = Grid(steps)]

(***************************************************************************)
(* Initial states: nothing built yet.                                      *)
(***************************************************************************)
SuiteStart ==
    /\ pc = "start"
    /\ kind = "none"
    /\ suite = EmptySuite
    /\ dataset = << >>
    /\ err = "none"
    /\ suite2 = EmptySuite
    /\ batch = << >>
    /\ err2 = "none"
    /\ sret = NoRet

BetaStart ==
    /\ bpc = "start"
    /\ alpha = RInt(1)
    /\ beta = RInt(1)
    /\ a0 = RInt(1)
    /\ b0 = RInt(1)
    /\ history = << >>
    /\ bret = NoResult

\* the suites are exercised; what Update leaves behind on an error is either
\* the masses before the call or the multiplied ones, fixed for the run
SuiteInit == SuiteStart /\ BetaStart /\ policy \in {"rollback", "degenerate"}

\* the Beta object is exercised
BetaInit == SuiteStart /\ BetaStart /\ policy = "rollback"

(***************************************************************************)
(* Actions on the suites.                                                  *)
(***************************************************************************)
\* UniformPrior(): suite = Euro(range(0, 101)); the Euro2 suite is built alike
MakeUniformPrior ==
    /\ pc = "start"
    /\ pc' = "ready"
    /\ kind' = "uniform"
    /\ suite' = UniformPrior
    /\ suite2' = UniformPrior
    /\ UNCHANGED <<policy, dataset, err, batch, err2, sret>>
    /\ UNCHANGED betaVars

\* a suite built with explicit weights
MakeWeightedPrior ==
    /\ pc = "start"
    /\ \E support \in Supports :
         /\ suite' = WeightedPrior(support)
         /\ suite2' = WeightedPrior(support)
    /\ pc' = "ready"
    /\ kind' = "weighted"
    /\ UNCHANGED <<policy, dataset, err, batch, err2, sret>>
    /\ UNCHANGED betaVars

\* TrianglePrior, first line: suite = Euro(label=label)
TriangleConstruct ==
    /\ pc = "start"
    /\ pc' = "populating"
    /\ kind' = "triangle"
    /\ suite' = EmptySuite
    /\ UNCHANGED <<policy, dataset, err, suite2, batch, err2, sret>>
    /\ UNCHANGED betaVars

\* TrianglePrior, one pass of its loops: suite[x] = x or suite[x] = 100-x
TrianglePopulate ==
    /\ pc = "populating"
    /\ ~TriangleFilled(suite)
    /\ LET x == Len(suite.vals)
       IN  suite' = SetItem(suite, x, TriangleWeight(x))
    /\ UNCHANGED <<pc, kind, policy, dataset, err, suite2, batch, err2, sret>>
    /\ UNCHANGED betaVars

\* TrianglePrior, last lines: suite.Normalize(); return suite
TriangleNormalize ==
    /\ pc = "populating"
    /\ TriangleFilled(suite)
    /\ pc' = "ready"
    /\ suite' = TriangleFinish(suite)
    /\ suite2' = TriangleFinish(suite)
    /\ UNCHANGED <<kind, policy, dataset, err, batch, err2, sret>>
    /\ UNCHANGED betaVars

\* one pass of "for data in dataset: suite.Update(data)"; an exception ends the loop
UpdateStep ==
    /\ pc = "ready"
    /\ Len(dataset) < MaxObs
    /\ \E data \in Data :
         LET m == Mult(suite, [x \in DOMAIN suite.w |-> Likelihood(data, x)])
         IN  /\ dataset' = Append(dataset, data)
             /\ IF Total(m) = 0
                THEN /\ err' = "ZeroEvidenceError"
                     /\ pc' = "failed"
                     /\ suite' = IF policy = "rollback" THEN suite ELSE m
                ELSE /\ suite' = Normalize(m)
                     /\ UNCHANGED <<err, pc>>
    /\ sret' = NoRet
    /\ UNCHANGED <<kind, policy, suite2, batch, err2>>
    /\ UNCHANGED betaVars

\* suite.Update((heads, tails)) on the Euro2 suite, once
BatchUpdate ==
    /\ pc \in {"ready", "failed"}
    /\ batch = << >>
    /\ \E heads \in 0 .. MaxObs, tails \in 0 .. MaxObs :
         /\ heads + tails <= MaxObs
         /\ heads + tails > 0
         /\ LET m == Mult(suite2, [x \in DOMAIN suite2.w |-> Likelihood2(<<heads, tails>>, x)])
            IN  /\ batch' = <<heads, tails>>
                /\ IF Total(m) = 0
                   THEN /\ err2' = "ZeroEvidenceError"
                        /\ suite2' = IF policy = "rollback" THEN suite2 ELSE m
                   ELSE /\ suite2' = Normalize(m)
                        /\ UNCHANGED err2
    /\ UNCHANGED <<pc, kind, policy, suite, dataset, err, sret>>
    /\ UNCHANGED betaVars

\* suite.MAP()
QueryMAP ==
    /\ pc = "ready"
    /\ sret = NoRet
    /\ sret' = [op |-> "MAP", val |-> MAP(suite)]
    /\ UNCHANGED <<pc, kind, policy, suite, dataset, err, suite2, batch, err2>>
    /\ UNCHANGED betaVars

SuiteNext ==
    \/ MakeUniformPrior
    \/ MakeWeightedPrior
    \/ TriangleConstruct
    \/ TrianglePopulate
    \/ TriangleNormalize
    \/ UpdateStep
    \/ BatchUpdate
    \/ QueryMAP

SuiteSpec == SuiteInit /\ [][SuiteNext]_vars

(***************************************************************************)
(* Actions on the Beta object.                                             *)
(***************************************************************************)
\* Beta(alpha, beta): the arguments are stored as given
BetaConstruct ==
    /\ bpc = "start"
    /\ \E al \in ShapeArgs, be \in ShapeArgs :
         /\ alpha' = al
         /\ beta' = be
         /\ a0' = al
         /\ b0' = be
    /\ bpc' = "ready"
    /\ UNCHANGED <<history, bret>>
    /\ UNCHANGED <<suiteVars>>

\* beta.Update((heads, tails))
BetaUpdateCall ==
    /\ bpc = "ready"
    /\ Len(history) < MaxBetaUpdates
    /\ \E data \in Pairs :
         LET r == BetaUpdate(alpha, beta, data)
         IN  /\ alpha' = r[1]
             /\ beta' = r[2]
             /\ history' = Append(history, data)
    /\ bret' = NoResult
    /\ UNCHANGED <<bpc, a0, b0>>
    /\ UNCHANGED <<suiteVars>>

\* beta.Mean()
BetaMeanCall ==
    /\ bpc = "ready"
    /\ bret' = BetaMean(alpha, beta)
    /\ UNCHANGED <<bpc, alpha, beta, a0, b0, history>>
    /\ UNCHANGED <<suiteVars>>

\* beta.MAP()
BetaMAPCall ==
    /\ bpc = "ready"
    /\ bret' = BetaMAP(alpha, beta)
    /\ UNCHANGED <<bpc, alpha, beta, a0, b0, history>>
    /\ UNCHANGED <<suiteVars>>

\* beta.MakePmf(steps)
BetaMakePmfCall ==
    /\ bpc = "ready"
    /\ \E steps \in StepsTried : bret' = MakePmf(alpha, beta, steps)
    /\ UNCHANGED <<bpc, alpha, beta, a0, b0, history>>
    /\ UNCHANGED <<suiteVars>>

BetaNext ==
    \/ BetaConstruct
    \/ BetaUpdateCall
    \/ BetaMeanCall
    \/ BetaMAPCall
    \/ BetaMakePmfCall

BetaSpec == BetaInit /\ [][BetaNext]_vars

(***************************************************************************)
(* Properties of the suites, checked under SuiteSpec.                      *)
(***************************************************************************)
RECURSIVE CountHeads(_, _)
CountHeads(ds, i) ==
    IF i > Len(ds) THEN 0
    ELSE (IF ds[i] = "H" THEN 1 ELSE 0) + CountHeads(ds, i + 1)

Heads == CountHeads(dataset, 1)

Tails == Len(dataset) - Heads

\* the masses are not negative and sum to 1
SumsToOne(s) ==
    /\ s.t > 0
    /\ EqScaled(Total(s), s.t, s.e)
    /\ \A x \in DOMAIN s.w : s.w[x] >= 0

\* x is the only hypothesis that still has mass
OnlyMassAt(s, x) ==
    /\ x \in DOMAIN s.w
    /\ s.w[x] > 0
    /\ \A y \in DOMAIN s.w : s.w[y] # 0 => y = x

AllZero(s) == \A y \in DOMAIN s.w : s.w[y] = 0

UpdateCalled == pc = "ready" /\ Len(dataset') = Len(dataset) + 1

LastDatum == dataset'[Len(dataset')]

C3_ZeroEvidenceRaises ==
    [][(/\ UpdateCalled
        /\ \/ LastDatum = "H" /\ OnlyMassAt(suite, 0)
           \/ LastDatum # "H" /\ OnlyMassAt(suite, 100))
          => /\ err' = "ZeroEvidenceError"
             /\ pc' = "failed"
             /\ suite'.t > 0
             /\ suite'.vals = suite.vals
             /\ (suite' = suite \/ AllZero(suite'))]_vars

C3_Witness ==
    /\ err = "ZeroEvidenceError"
    /\ pc = "failed"
    /\ dataset = <<"H">>
    /\ policy = "rollback"
    /\ OnlyMassAt(suite, 0)

C9_MAPFirstMaximum ==
    sret.op = "MAP"
        => /\ \A y \in DOMAIN suite.w : suite.w[y] <= suite.w[sret.val]
           /\ \A i, j \in 1 .. Len(suite.vals) :
                (suite.vals[j] = sret.val /\ i < j)
                    => suite.w[suite.vals[i]] < suite.w[sret.val]
           /\ (kind = "triangle" /\ dataset = << >>) => sret.val = 50
           /\ (kind = "uniform" /\ dataset = << >>) => sret.val = suite.vals[1]

C9_Witness ==
    /\ sret.op = "MAP"
    /\ kind = "triangle"
    /\ dataset = << >>
    /\ sret.val = 50

\* C10: a hypothesis of mass 0 has mass 0 after every later successful Update;
\* hypothesis 0 has mass 0 once an 'H' was observed and hypothesis 100 once any
\* other datum was (every datum other than 'H' counts as a tail); the triangle
\* prior has mass 0 at 0 and at 100 from the start.
C10_ZeroIsAbsorbing ==
    /\ [][(UpdateCalled /\ pc' = "ready")
            => \A x \in DOMAIN suite.w : suite.w[x] = 0 => suite'.w[x] = 0]_vars
    /\ [](pc = "ready"
            => /\ (\E i \in 1 .. Len(dataset) : dataset[i] = "H") => suite.w[0] = 0
               /\ (\E i \in 1 .. Len(dataset) : dataset[i] # "H") => suite.w[100] = 0
               /\ kind = "triangle" => (suite.w[0] = 0 /\ suite.w[100] = 0))

C10_Witness ==
    /\ pc = "ready"
    /\ kind = "uniform"
    /\ dataset = <<"H", "X">>
    /\ suite.w[0] = 0
    /\ suite.w[100] = 0
    /\ suite.w[50] > 0

(***************************************************************************)
(* Properties of the Beta object, checked under BetaSpec.                  *)
(***************************************************************************)
RECURSIVE SumComponent(_, _, _)
SumComponent(h, k, i) ==
    IF i > Len(h) THEN 0 ELSE h[i][k] + SumComponent(h, k, i + 1)

\* C4: after any sequence of Update calls on Beta(a0, b0), alpha is a0 plus
\* the sum of the first components and beta is b0 plus the sum of the second,
\* Mean() is alpha / (alpha + beta), and Beta() updated once with (140, 110)
\* has alpha = 141, beta = 111 and Mean() = 141/252.
C4_BetaUpdateAdds ==
    bpc = "ready"
        => /\ alpha = RAdd(a0, RInt(SumComponent(history, 1, 1)))
           /\ beta = RAdd(b0, RInt(SumComponent(history, 2, 1)))
           /\ (bret.op = "Mean" /\ bret.exc = "none")
                => RMul(bret.val, RAdd(alpha, beta)) = alpha
           /\ (a0 = RInt(1) /\ b0 = RInt(1) /\ history = << <<140, 110>> >>)
                => /\ alpha = RInt(141)
                   /\ beta = RInt(111)
                   /\ bret.op = "Mean"
                        => (bret.exc = "none" /\ bret.val.n * 252 = bret.val.d * 141)

C4_Witness ==
    /\ bpc = "ready"
    /\ a0 = RInt(1)
    /\ b0 = RInt(1)
    /\ history = << <<140, 110>> >>
    /\ bret.op = "Mean"
    /\ bret.val = Rat(141, 252)

\* C5: alpha > 0 and beta > 0 in every state of a Beta object, whatever the
\* constructor arguments and the pairs given to Update.
C5_ShapesStayPositive ==
    bpc = "ready" => (RLess(RInt(0), alpha) /\ RLess(RInt(0), beta))

ValidShapes == RLess(RInt(0), alpha) /\ RLess(RInt(0), beta)

\* C6: for positive alpha and beta, those with alpha <= 1 or beta <= 1
\* included, MAP() never divides by zero and never returns a value outside
\* [0, 1].
C6_MAPSpecialCased ==
    (bret.op = "MAP" /\ ValidShapes)
        => /\ bret.exc = "none"
           /\ RLeq(RInt(0), bret.val)
           /\ RLeq(bret.val, RInt(1))

\* C7: for positive alpha and beta and steps >= 2, MakePmf(steps) returns a
\* distribution over exactly the steps points i/(steps-1), i = 0..steps-1, in
\* the density branch and in the CDF branch.
C7_StepsHonoured ==
    (bret.op = "MakePmf" /\ ValidShapes)
        => /\ Len(bret.xs) = bret.steps
           /\ \A i \in 1 .. Len(bret.xs) : bret.xs[i] = Rat(i - 1, bret.steps - 1)

====
